---------------------------- MODULE Spec2Model ----------------------------
(***************************************************************************)
(* secnix: the generation manager (src/src/fs.rs) driven by the install    *)
(* command (src/src/cli.rs).                                               *)
(*                                                                         *)
(* The state is the part of the file system the manager works on: the      *)
(* generation directories under <basedir>/generations, the pointer         *)
(* <basedir>/secrets, <basedir>/metadata.json and the publish destinations *)
(* (with their temporary siblings), together with the position and the     *)
(* locals of the activate_new_generation call in progress.                 *)
(*                                                                         *)
(* activate_new_generation is one action per loop iteration and per step,  *)
(* so that the states a reader of <basedir>/secrets can see in between are *)
(* states of the model.  clean_old_generations is one action.  Calls do    *)
(* not overlap: the caller guarantees exclusion per basedir.               *)
(*                                                                         *)
(* The environment: SystemTime::now() is a wall clock, any second of       *)
(* 1..MaxTime at each call; an I/O error may end the call at the flip, at  *)
(* a link, at the read of the previous .metadata.json and at the write of  *)
(* metadata.json; a missing source, a missing rendered file and a mode     *)
(* that is not octal end it where the code reads them.  chown only warns   *)
(* and is left out.                                                        *)
(*                                                                         *)
(* The decryption of a leaf (src/src/sops.rs, src/src/enc/age.rs) and the  *)
(* substitution of the renderer are functions of their arguments; SpecCalls*)
(* calls each of them on its own on every input of its bounded sets.       *)
(***************************************************************************)
EXTENDS Integers, Sequences, FiniteSets, TLC

(***************************************************************************)
(* Bounds of the model.                                                    *)
(***************************************************************************)
\* number of activate_new_generation calls (one fresh ULID each)
MaxGen == 2
\* SystemTime::now() in unix seconds is drawn from 1..MaxTime
MaxTime == 2
\* clean_old_generations is called with to_keep in 0..MaxKeep
MaxKeep == 3

(***************************************************************************)
(* Program constants.                                                      *)
(***************************************************************************)
\* .mode(0o600) of the OpenOptions that create a secret or a rendered file
CreateMode == 384
\* secret_file.mode.unwrap_or(400)
DefaultMode == 400
\* Permissions::from_mode(0o400) of a rendered template
RenderedMode == 256
\* u32::from_str_radix(&mode, 8)
Radix == 8
\* usize arithmetic wraps at 2^64 in a build without overflow checks; the
\* model keeps the wrap with a modulus that exceeds every count it reaches
UsizeModulus == 65536

\* Option<T>: None is the empty sequence, Some(x) the sequence <<x>>.
None == <<>>
Some(x) == <<x>>
unwrap_or(o, d) == IF o = None THEN d ELSE o[1]

EmptyFn == [x \in {} |-> x]

Min(S) == CHOOSE x \in S : \A y \in S : x <= y

Range(f) == {f[x] : x \in DOMAIN f}

(***************************************************************************)
(* Inputs: the SOPS documents and template sources on disk.                *)
(***************************************************************************)
\* load_sops_file + decrypt of a leaf: the documents that exist, by source
\* path and dotted key, with the typed plaintext of each leaf.
SopsFiles ==
    [ s_yaml |-> [ api_token |-> [type |-> "String", text |-> "hunter2"],
                   note      |-> [type |-> "Comment", text |-> ""] ],
      b_yaml |-> [ data      |-> [type |-> "Bytes",  text |-> "BLOB"] ] ]

\* load_sops_file(&secret_file.source): an error when the file is missing.
load_sops_file_ok(source) == source \in DOMAIN SopsFiles

\* encrypted.decrypt(&path, identity_file): an error when the leaf is missing.
decrypt(source, key) ==
    IF key \in DOMAIN SopsFiles[source]
    THEN [ok |-> TRUE, value |-> SopsFiles[source][key]]
    ELSE [ok |-> FALSE, value |-> [type |-> "Error", text |-> ""]]

\* Text is a sequence of tokens: literals and $$SECNIX::<name>::SECNIX$$
\* placeholders.
Lit(s) == [kind |-> "lit", v |-> s]
Ph(n)  == [kind |-> "ph", v |-> n]

\* The template sources that exist, by path (a sequence of components).
TemplateFiles ==
    ( <<"tpl", "cfg.tpl">>   :> << Lit("token="), Ph("api_token"), Lit(";blob="), Ph("blob") >> )
 @@ ( <<"tpl", "other.tpl">> :> << Lit("other="), Ph("api_token") >> )

(***************************************************************************)
(* Manifest model (src/src/manifest.rs).                                   *)
(***************************************************************************)
SecretFile(name, type, source, key, link, mode) ==
    [name |-> name, file_type |-> type, source |-> source, key |-> key,
     link |-> link, mode |-> mode]

Template(name, source, destination, copy, mode) ==
    [name |-> name, source |-> source, destination |-> destination, copy |-> copy,
     mode |-> mode]

\* SecretFile::get_key
get_key(s) ==
    IF s.key # None THEN s.key
    ELSE IF s.file_type = "binary" THEN Some("data")
    ELSE None

\* The publish destinations used by the manifests.
DestApi == "/run/s/api_token"
DestOld == "/run/s/old"
DestConf == "/etc/app.conf"
Dests == {DestApi, DestOld, DestConf}

\* link.with_extension("tmp"): the extension of the last component replaced
\* (or added when it has none).
with_extension_tmp(p) ==
    CASE p = DestApi  -> "/run/s/api_token.tmp"
      [] p = DestOld  -> "/run/s/old.tmp"
      [] p = DestConf -> "/etc/app.tmp"

Temps == {with_extension_tmp(p) : p \in Dests}
Paths == Dests \cup Temps

\* Path::new(&template.source).file_name()
file_name(path) == path[Len(path)]

sTok    == SecretFile("api_token", "yaml", "s_yaml", Some("api_token"), Some(DestApi), None)
sTok640 == SecretFile("api_token", "yaml", "s_yaml", Some("api_token"), Some(DestOld), Some(640))
sBlob   == SecretFile("blob", "binary", "b_yaml", None, None, Some(600))
sNote   == SecretFile("note", "yaml", "s_yaml", Some("note"), None, None)
sNoKey  == SecretFile("nokey", "yaml", "s_yaml", None, Some(DestOld), None)
sBroken == SecretFile("broken", "json", "gone_json", Some("x"), None, None)
sMode8  == SecretFile("blob", "binary", "b_yaml", None, None, Some(480))

tCopy     == Template("cfg.tpl", <<"tpl", "cfg.tpl">>, DestConf, TRUE, None)
tLink     == Template("app", <<"tpl", "cfg.tpl">>, DestConf, FALSE, Some(640))
tCopyApp  == Template("app.conf", <<"tpl", "cfg.tpl">>, DestConf, TRUE, None)
tOther    == Template("cfg.tpl", <<"tpl", "other.tpl">>, DestOld, FALSE, None)
tMissing  == Template("gone", <<"tpl", "gone.tpl">>, DestConf, FALSE, None)

\* The manifests install is run against.
Manifests ==
    << [secrets |-> <<sTok>>,            templates |-> <<tCopy>>],
       [secrets |-> <<sTok640, sBlob>>,  templates |-> <<tLink>>],
       [secrets |-> <<sTok, sNote>>,     templates |-> <<tCopyApp, tOther>>],
       [secrets |-> <<sNoKey, sBroken>>, templates |-> <<>>],
       [secrets |-> <<sTok, sMode8>>,    templates |-> <<tCopy>>],
       [secrets |-> <<sTok>>,            templates |-> <<tMissing>>],
       [secrets |-> <<sTok>>,            templates |-> <<tCopyApp>>],
       [secrets |-> <<sNoKey>>,          templates |-> <<>>] >>

ManifestIds == 1..Len(Manifests)

(***************************************************************************)
(* Helpers of activate_new_generation.                                     *)
(***************************************************************************)
RECURSIVE Digits(_)
\* mode.to_string(): the decimal digits of the configured mode
Digits(n) == IF n < 10 THEN <<n>> ELSE Append(Digits(n \div 10), n % 10)

RECURSIVE DigitsValue(_, _)
DigitsValue(ds, radix) ==
    IF ds = <<>> THEN 0
    ELSE DigitsValue(SubSeq(ds, 1, Len(ds) - 1), radix) * radix + ds[Len(ds)]

\* u32::from_str_radix(&mode, radix): an error on a digit that is not one of
\* the radix
from_str_radix(ds, radix) ==
    IF \E i \in DOMAIN ds : ds[i] >= radix
    THEN [ok |-> FALSE, value |-> 0]
    ELSE [ok |-> TRUE, value |-> DigitsValue(ds, radix)]

\* the mode parsed in the radix of its to_string() form instead of octal
as_octal_Decimal(s) == from_str_radix(Digits(unwrap_or(s.mode, DefaultMode)), 10)

\* let as_octal = u32::from_str_radix(&secret_file.mode.unwrap_or(400).to_string(), 8)
as_octal(s) == from_str_radix(Digits(unwrap_or(s.mode, DefaultMode)), Radix)

\* the bytes file.write_all receives for each DecryptedValue
written_bytes(value) ==
    IF value.type \in {"String", "Int", "Float", "Bool", "Bytes"}
    THEN << Lit(value.text) >>
    ELSE << >>

\* secrets.insert(file_name, ...): only String, Int, Float and Bool
inserts_secret(value) == value.type \in {"String", "Int", "Float", "Bool"}

RECURSIVE replace(_, _, _)
\* text.replace(&target_key, value), target_key = "$$SECNIX::{key}::SECNIX$$":
\* every occurrence in text, in one pass from the left; what the pass puts in
\* is not scanned again
replace(text, key, value) ==
    IF text = << >> THEN << >>
    ELSE (IF Head(text) = Ph(key) THEN value ELSE << Head(text) >>)
         \o replace(Tail(text), key, value)

\* the orders in which for (key, value) in &secrets may visit the HashMap
iter_orders(keys) ==
    {o \in [1..Cardinality(keys) -> keys] :
        \A i, j \in DOMAIN o : i # j => o[i] # o[j]}

RECURSIVE render(_, _, _)
\* for (key, value) in &secrets { text = text.replace(&target_key, value) },
\* visiting the table in order
render(text, table, order) ==
    IF order = << >> THEN text
    ELSE render(replace(text, Head(order), table[Head(order)]), table, Tail(order))

\* current_metadata.secret_files: [template_links, file_links].concat()
secret_files(m) ==
    {m.templates[i].destination : i \in DOMAIN m.templates}
    \cup {m.secrets[i].link[1] : i \in {j \in DOMAIN m.secrets : m.secrets[j].link # None}}

(***************************************************************************)
(* File system entries.                                                    *)
(***************************************************************************)
Absent == [kind |-> "absent", target |-> <<>>, content |-> <<>>, mode |-> 0]
Symlink(target) == [kind |-> "symlink", target |-> target, content |-> <<>>, mode |-> 0]
RegularFile(content, mode) == [kind |-> "file", target |-> <<>>, content |-> content, mode |-> mode]
\* a file the operator put at a destination, not created by the manager
OperatorFile == [kind |-> "operator", target |-> <<>>, content |-> <<Lit("operator")>>, mode |-> 420]

NoDir ==
    [exists |-> FALSE, manifest |-> 0, secret_files |-> {}, files |-> EmptyFn,
     rendered_dir |-> FALSE, rendered |-> EmptyFn]

\* FileSystemMetadata of get_metadata when metadata.json does not exist
EmptyMetadata == [generations |-> EmptyFn, active_generation |-> None]

NoResult == [status |-> "none", gen |-> 0, step |-> "none"]
NoRun ==
    [valid |-> FALSE, manifest |-> 0, gen |-> 0, resolved |-> EmptyFn,
     repeat |-> FALSE, cleaned |-> FALSE]

NoCall == [fn |-> "none"]

VARIABLES
    pc,                  \* position in activate_new_generation, "idle" outside
    manifest,            \* id of the manifest of the current or last call
    generation_id,       \* let generation_id = Ulid::new()
    idx,                 \* index of the for loop in progress
    secrets,             \* let mut secrets: HashMap<&str, String>
    metadata,            \* let mut metadata = get_metadata(basedir)?
    previous_generation, \* metadata.active_generation.take()
    result,              \* what the last call returned
    nextUlid,            \* the next fresh ULID
    generations,         \* <basedir>/generations/<id>
    secretsLink,         \* target of <basedir>/secrets, None when absent
    metadataFile,        \* <basedir>/metadata.json
    fs,                  \* the publish destinations and their temporaries
    partials,            \* history: generations whose install failed before the flip
    prev_run,            \* history: the last call, when it succeeded and no
                         \* operator has touched a destination since: its
                         \* manifest and id, what the destinations resolved
                         \* to when it returned, whether it repeated the
                         \* manifest of the run before it, and whether
                         \* clean_old_generations has run since
    called               \* the last call of a function of the decryption
                         \* chain or of the renderer on its own: the
                         \* function, its arguments and what it returned

vars == << pc, manifest, generation_id, idx, secrets, metadata, previous_generation,
           result, nextUlid, generations, secretsLink, metadataFile, fs,
           partials, prev_run, called >>

locals == << generation_id, idx, secrets, metadata, previous_generation >>

Init ==
    /\ pc = "idle"
    /\ manifest = 0
    /\ generation_id = 0
    /\ idx = 0
    /\ secrets = EmptyFn
    /\ metadata = EmptyMetadata
    /\ previous_generation = None
    /\ result = NoResult
    /\ nextUlid = 1
    /\ generations = [g \in 1..MaxGen |-> NoDir]
    /\ secretsLink = None
    /\ metadataFile = EmptyMetadata
    /\ fs = [p \in Paths |-> Absent]
    /\ partials = {}
    /\ prev_run = NoRun
    /\ called = NoCall

\* what a reader gets at path p: the content behind a destination
Resolve(p) ==
    CASE fs[p].kind = "absent" -> << Lit("ENOENT") >>
      [] fs[p].kind \in {"file", "operator"} -> fs[p].content
      [] fs[p].kind = "symlink" ->
            IF secretsLink = None \/ ~generations[secretsLink[1]].exists
            THEN << Lit("ENOENT") >>
            ELSE LET dir == generations[secretsLink[1]]
                     t == fs[p].target
                 IN IF Len(t) = 2
                    THEN IF t[2] \in DOMAIN dir.files
                         THEN dir.files[t[2]].content ELSE << Lit("ENOENT") >>
                    ELSE IF t[3] \in DOMAIN dir.rendered
                         THEN dir.rendered[t[3]].content ELSE << Lit("ENOENT") >>

\* the error return of activate_new_generation (the ? operator) at step
Fail(step) ==
    /\ pc' = "idle"
    /\ result' = [status |-> "err", gen |-> generation_id, step |-> step]
    /\ prev_run' = NoRun
    /\ generation_id' = 0
    /\ idx' = 0
    /\ secrets' = EmptyFn
    /\ metadata' = EmptyMetadata
    /\ previous_generation' = None

\* after the loop over files: create_dir_all(rendered), then the templates
AfterFiles(dir) == [dir EXCEPT !.rendered_dir = TRUE]

(***************************************************************************)
(* activate_new_generation, one action per step.                           *)
(***************************************************************************)
\* the pointer flipped right after the files, before the templates are rendered
PcAfterFiles_FlipFirst(man, i) == IF i <= Len(man.secrets) THEN "write" ELSE "flip"

PcAfterFiles(man, i) ==
    IF i <= Len(man.secrets) THEN "write"
    ELSE IF Len(man.templates) >= 1 THEN "render" ELSE "flip"

PcAfterTemplates(man, i) == IF i <= Len(man.templates) THEN "render" ELSE "flip"

PcAfterLinkFiles(man, i) ==
    IF i <= Len(man.secrets) THEN "link_files"
    ELSE IF Len(man.templates) >= 1 THEN "link_templates" ELSE "prune"

PcAfterLinkTemplates(man, i) ==
    IF i <= Len(man.templates) THEN "link_templates" ELSE "prune"

\* Ulid::new(): a fresh id
NewUlid == nextUlid

\* lines 51-73: the generation id, the generation directory, .metadata.json
Begin(m) ==
    /\ pc = "idle"
    /\ nextUlid <= MaxGen
    /\ LET g == NewUlid
           man == Manifests[m]
           next == PcAfterFiles(man, 1)
           dir == [exists |-> TRUE, manifest |-> m, secret_files |-> secret_files(man),
                   files |-> EmptyFn, rendered_dir |-> FALSE, rendered |-> EmptyFn]
       IN /\ generation_id' = g
          /\ nextUlid' = nextUlid + 1
          /\ manifest' = m
          /\ generations' = [generations EXCEPT
                               ![g] = IF next = "write" THEN dir ELSE AfterFiles(dir)]
          /\ pc' = next
          /\ idx' = 1
          /\ secrets' = EmptyFn
          /\ UNCHANGED << metadata, previous_generation, result, secretsLink,
                          metadataFile, fs, partials, prev_run, called >>

\* the file written through <basedir>/secrets, into the active generation
file_dir_ViaPointer(g) == IF secretsLink # None THEN secretsLink[1] ELSE g

\* generation_directory.join(file_name): the directory a secret is written in
file_dir(g) == g

\* lines 77-167: one iteration of the loop over files
WriteSecret ==
    /\ pc = "write"
    /\ LET man == Manifests[manifest]
           s == man.secrets[idx]
           g == file_dir(generation_id)
           dir == generations[g]
           key == get_key(s)
           loaded == load_sops_file_ok(s.source)
           decrypted == IF loaded /\ key # None
                        THEN decrypt(s.source, key[1])
                        ELSE [ok |-> FALSE, value |-> [type |-> "Error", text |-> ""]]
           mode == as_octal(s)
           next == PcAfterFiles(man, idx + 1)
           advance(d) ==
               /\ generations' = [generations EXCEPT
                                    ![g] = IF next = "write" THEN d ELSE AfterFiles(d)]
               /\ pc' = next
               /\ idx' = IF next = "write" THEN idx + 1 ELSE 1
               /\ UNCHANGED << generation_id, metadata, previous_generation, result,
                               partials, prev_run >>
       IN \/ \* load_sops_file(..)? or encrypted.decrypt(..)? returns the error
             /\ ~loaded \/ (key # None /\ ~decrypted.ok)
             /\ Fail("write")
             /\ partials' = partials \cup {generation_id}
             /\ UNCHANGED generations
          \/ \* no key: warn and go on
             /\ loaded /\ key = None
             /\ advance(dir)
             /\ UNCHANGED secrets
          \/ \* the file is written, u32::from_str_radix(..)? returns the error
             /\ loaded /\ key # None /\ decrypted.ok /\ ~mode.ok
             /\ generations' = [generations EXCEPT ![g].files =
                    (s.name :> [content |-> written_bytes(decrypted.value),
                                mode |-> CreateMode]) @@ dir.files]
             /\ Fail("write")
             /\ partials' = partials \cup {generation_id}
          \/ \* the file is written and its permissions set
             /\ loaded /\ key # None /\ decrypted.ok /\ mode.ok
             /\ advance([dir EXCEPT !.files =
                    (s.name :> [content |-> written_bytes(decrypted.value),
                                mode |-> mode.value]) @@ dir.files])
             /\ secrets' = IF inserts_secret(decrypted.value)
                           THEN (s.name :> << Lit(decrypted.value.text) >>) @@ secrets
                           ELSE secrets
    /\ UNCHANGED << called, manifest, nextUlid, secretsLink, metadataFile, fs >>

\* lines 173-194: one iteration of the loop rendering the templates
RenderTemplate ==
    /\ pc = "render"
    /\ LET man == Manifests[manifest]
           t == man.templates[idx]
           g == generation_id
           dir == generations[g]
           next == PcAfterTemplates(man, idx + 1)
       IN \/ \* std::fs::read_to_string(&template.source)? returns the error
             /\ t.source \notin DOMAIN TemplateFiles
             /\ Fail("render")
             /\ partials' = partials \cup {g}
             /\ UNCHANGED generations
          \/ /\ t.source \in DOMAIN TemplateFiles
             /\ \E order \in iter_orders(DOMAIN secrets) :
                   generations' = [generations EXCEPT ![g].rendered =
                      (t.name :> [content |-> render(TemplateFiles[t.source], secrets,
                                                     order),
                                  mode |-> RenderedMode]) @@ dir.rendered]
             /\ pc' = next
             /\ idx' = IF next = "render" THEN idx + 1 ELSE 1
             /\ UNCHANGED << generation_id, secrets, metadata, previous_generation,
                             result, partials, prev_run >>
    /\ UNCHANGED << called, manifest, nextUlid, secretsLink, metadataFile, fs >>

\* metadata.generations.insert(time, generation_id.clone())
insert_generation(gens, time, g) == (time :> g) @@ gens

\* the generation recorded, the active one left as it was
activate_metadata_KeepActive(md, time, g) ==
    [generations |-> insert_generation(md.generations, time, g),
     active_generation |-> md.active_generation]

\* lines 198-206: the generation recorded and made the active one
activate_metadata(md, time, g) ==
    [generations |-> insert_generation(md.generations, time, g),
     active_generation |-> Some(g)]

\* lines 196-212: the in-memory metadata, then the symlink renamed over
\* <basedir>/secrets
Flip ==
    /\ pc = "flip"
    /\ \/ \E time \in 1..MaxTime :
            /\ metadata' = activate_metadata(metadataFile, time, generation_id)
            /\ previous_generation' = metadataFile.active_generation
            /\ secretsLink' = Some(generation_id)
            /\ pc' = PcAfterLinkFiles(Manifests[manifest], 1)
            /\ idx' = 1
            /\ UNCHANGED << generation_id, secrets, result, partials, prev_run >>
       \/ \* symlink(..)? or rename(..)? returns an I/O error
          /\ Fail("flip")
          /\ partials' = partials \cup {generation_id}
          /\ UNCHANGED secretsLink
    /\ UNCHANGED << called, manifest, nextUlid, generations, metadataFile, fs >>

\* symlink(target, &temp_file)?; rename(temp_file, link)?: the temporary must
\* not exist, and replaces whatever is at link
publish(files, link, entry) ==
    [files EXCEPT ![with_extension_tmp(link)] = Absent, ![link] = entry]

\* lines 215-230: one iteration of the loop linking the files
LinkFile ==
    /\ pc = "link_files"
    /\ LET man == Manifests[manifest]
           s == man.secrets[idx]
           next == PcAfterLinkFiles(man, idx + 1)
           advance ==
               /\ pc' = next
               /\ idx' = IF next = "link_files" THEN idx + 1 ELSE 1
               /\ UNCHANGED << generation_id, secrets, metadata, previous_generation,
                               result, prev_run >>
       IN \/ /\ s.link = None
             /\ advance
             /\ UNCHANGED fs
          \/ /\ s.link # None
             /\ fs[with_extension_tmp(s.link[1])] = Absent
             /\ fs' = publish(fs, s.link[1], Symlink(<< "secrets", s.name >>))
             /\ advance
          \/ \* create_dir_all(..)? or symlink(..)? returns an I/O error
             /\ s.link # None
             /\ Fail("link_files")
             /\ UNCHANGED fs
    /\ UNCHANGED << called, manifest, nextUlid, generations, secretsLink, metadataFile,
                    partials >>

\* rendered_template_dir.join(Path::new(&template.source).file_name().unwrap())
copy_source(t) == file_name(t.source)

\* lines 233-259: one iteration of the loop publishing the templates
LinkTemplate ==
    /\ pc = "link_templates"
    /\ LET man == Manifests[manifest]
           t == man.templates[idx]
           dir == generations[generation_id]
           next == PcAfterLinkTemplates(man, idx + 1)
           advance ==
               /\ pc' = next
               /\ idx' = IF next = "link_templates" THEN idx + 1 ELSE 1
               /\ UNCHANGED << generation_id, secrets, metadata, previous_generation,
                               result, prev_run >>
       IN \/ \* std::fs::copy(source, &temp)? then rename
             /\ t.copy
             /\ copy_source(t) \in DOMAIN dir.rendered
             /\ fs' = publish(fs, t.destination,
                              RegularFile(dir.rendered[copy_source(t)].content,
                                          dir.rendered[copy_source(t)].mode))
             /\ advance
          \/ \* std::fs::copy(source, &temp)? returns the error: no such file
             /\ t.copy
             /\ copy_source(t) \notin DOMAIN dir.rendered
             /\ Fail("link_templates")
             /\ UNCHANGED fs
          \/ /\ ~t.copy
             /\ fs[with_extension_tmp(t.destination)] = Absent
             /\ fs' = publish(fs, t.destination, Symlink(<< "secrets", "rendered", t.name >>))
             /\ advance
    /\ UNCHANGED << called, manifest, nextUlid, generations, secretsLink, metadataFile,
                    partials >>

\* every destination of the previous generation taken for stale
to_remove_files_All(previous, current) == previous

\* the difference taken the other way round
to_remove_files_Reversed(previous, current) == current \ previous

\* previous_files.difference(&current_files)
to_remove_files(previous, current) == previous \ current

\* lines 262-281: the stale destinations of the previous generation
Prune ==
    /\ pc = "prune"
    /\ \/ /\ previous_generation = None
          /\ pc' = "persist"
          /\ UNCHANGED << fs, generation_id, idx, secrets, metadata,
                          previous_generation, result, prev_run >>
       \/ /\ previous_generation # None
          /\ LET prev == generations[previous_generation[1]]
                 stale == to_remove_files(prev.secret_files,
                                          secret_files(Manifests[manifest]))
             IN /\ prev.exists
                /\ fs' = [p \in Paths |-> IF p \in stale THEN Absent ELSE fs[p]]
                /\ pc' = "persist"
                /\ UNCHANGED << generation_id, idx, secrets, metadata,
                                previous_generation, result, prev_run >>
       \/ \* std::fs::File::open(&previous_manifest)? or serde_json::from_reader(..)?
          \* returns the error: the file is missing or cannot be read
          /\ previous_generation # None
          /\ Fail("prune")
          /\ UNCHANGED fs
    /\ UNCHANGED << called, manifest, nextUlid, generations, secretsLink, metadataFile,
                    partials >>

\* lines 283-289: metadata.json written, Ok(generation_id)
Persist ==
    /\ pc = "persist"
    /\ \/ /\ metadataFile' = metadata
          /\ pc' = "idle"
          /\ result' = [status |-> "ok", gen |-> generation_id, step |-> "none"]
          /\ prev_run' = [valid |-> TRUE, manifest |-> manifest, gen |-> generation_id,
                           resolved |-> [d \in Dests |-> Resolve(d)],
                           repeat |-> prev_run.valid /\ prev_run.manifest = manifest,
                           cleaned |-> FALSE]
          /\ generation_id' = 0
          /\ idx' = 0
          /\ secrets' = EmptyFn
          /\ metadata' = EmptyMetadata
          /\ previous_generation' = None
       \/ \* std::fs::File::create(&metadata_file)? returns an I/O error
          /\ Fail("persist")
          /\ UNCHANGED metadataFile
    /\ UNCHANGED << called, manifest, nextUlid, generations, secretsLink, fs,
                    partials >>

(***************************************************************************)
(* clean_old_generations (lines 292-332).                                  *)
(***************************************************************************)
\* the active generation not recognised
is_active_Never(active, id) == FALSE

\* active_generation.is_some_and(|id| id == &removed.1)
is_active(active, id) == active # None /\ active[1] = id

RECURSIVE clean_loop(_, _, _, _, _, _)
\* the while loop of lines 301-321: pop_first until removed_count reaches
\* to_remove, or return early when the map is empty
clean_loop(gens, removed_count, removed_active, removed, to_remove, active) ==
    IF removed_count < to_remove
    THEN IF DOMAIN gens = {}
         THEN [generations |-> gens, removed_active |-> removed_active,
               removed |-> removed, early |-> TRUE]
         ELSE LET ts == Min(DOMAIN gens)
                  id == gens[ts]
                  rest == [t \in DOMAIN gens \ {ts} |-> gens[t]]
              IN IF is_active(active, id)
                 THEN clean_loop(rest, removed_count, Some(<< ts, id >>), removed,
                                 to_remove, active)
                 ELSE clean_loop(rest, removed_count + 1, removed_active,
                                 removed \cup {id}, to_remove, active)
    ELSE [generations |-> gens, removed_active |-> removed_active,
          removed |-> removed, early |-> FALSE]

\* let to_remove = metadata.generations.len() - to_keep, in a build without
\* overflow checks
to_remove_count(len, to_keep) == (len - to_keep) % UsizeModulus

Clean(to_keep) ==
    /\ pc = "idle"
    /\ LET md == metadataFile
           len == Cardinality(DOMAIN md.generations)
           r == clean_loop(md.generations, 0, None, {}, to_remove_count(len, to_keep),
                           md.active_generation)
       IN \/ \* a build with overflow checks panics on the subtraction
             /\ to_keep > len
             /\ UNCHANGED << generations, metadataFile >>
          \/ \* pop_first() found the map empty: return Ok(()) at line 304
             /\ r.early
             /\ generations' = [g \in DOMAIN generations |->
                                  IF g \in r.removed THEN NoDir ELSE generations[g]]
             /\ UNCHANGED metadataFile
          \/ \* the loop ends: the active entry reinserted, metadata.json written
             /\ ~r.early
             /\ generations' = [g \in DOMAIN generations |->
                                  IF g \in r.removed THEN NoDir ELSE generations[g]]
             /\ metadataFile' =
                   [md EXCEPT !.generations =
                       IF r.removed_active = None THEN r.generations
                       ELSE insert_generation(r.generations, r.removed_active[1][1],
                                              r.removed_active[1][2])]
    /\ prev_run' = [prev_run EXCEPT !.cleaned = prev_run.valid]
    /\ UNCHANGED << called, pc, manifest, locals, result, nextUlid, secretsLink, fs,
                    partials >>

(***************************************************************************)
(* The environment: an operator puts a file of their own at a destination. *)
(***************************************************************************)
OperatorPaths == {DestOld}

OperatorPut(p) ==
    /\ pc = "idle"
    /\ fs[p] # OperatorFile
    /\ fs' = [fs EXCEPT ![p] = OperatorFile]
    /\ prev_run' = NoRun
    /\ UNCHANGED << called, pc, manifest, locals, result, nextUlid, generations, secretsLink,
                    metadataFile, partials >>

Next ==
    \/ \E m \in ManifestIds : Begin(m)
    \/ WriteSecret
    \/ RenderTemplate
    \/ Flip
    \/ LinkFile
    \/ LinkTemplate
    \/ Prune
    \/ Persist
    \/ \E k \in 0..MaxKeep : Clean(k)
    \/ \E p \in OperatorPaths : OperatorPut(p)

Spec == Init /\ [][Next]_vars

(***************************************************************************)
(* enc::age::decrypt (src/src/enc/age.rs): one encrypted leaf, from the    *)
(* envelope to the typed value.  A plaintext is a sequence of bytes.       *)
(***************************************************************************)
\* the plaintexts are the byte sequences of at most MaxLen bytes over
\* ByteAlphabet, and the samples
MaxLen == 2

\* '-', '1', and three bytes of 0x80 and above: 0xA9, 0xC3 and 0xFF
ByteAlphabet == {45, 49, 169, 195, 255}

\* "true", "false", "True", "1.5", and the three bytes of U+20AC
SampleTexts ==
    { << 116, 114, 117, 101 >>, << 102, 97, 108, 115, 101 >>,
      << 84, 114, 117, 101 >>, << 49, 46, 53 >>, << 226, 130, 172 >> }

Plaintexts ==
    UNION {[1..n -> ByteAlphabet] : n \in 0..MaxLen} \cup SampleTexts

\* the type tags of an envelope
TypeTags == {"str", "int", "float", "bytes", "bool", "comment", "other"}

\* Aes256GcmData::try_from: the tag of the envelope to Aes256GcmType
data_type_of(tag) ==
    CASE tag = "str" -> "String"
      [] tag = "int" -> "Int"
      [] tag = "float" -> "Float"
      [] tag = "bytes" -> "Bytes"
      [] tag = "bool" -> "Bool"
      [] tag = "comment" -> "Comment"
      [] OTHER -> "Unknown"

\* a continuation byte of UTF-8
is_cont(b) == b >= 128 /\ b <= 191

RECURSIVE is_utf8(_)
\* String::from_utf8 accepts exactly the well-formed UTF-8 sequences
is_utf8(bs) ==
    IF bs = << >> THEN TRUE
    ELSE LET b == bs[1]
             n == Len(bs)
             rest(k) == SubSeq(bs, k + 1, n)
         IN  CASE b <= 127 -> is_utf8(rest(1))
               [] b >= 194 /\ b <= 223 ->
                     n >= 2 /\ is_cont(bs[2]) /\ is_utf8(rest(2))
               [] b >= 224 /\ b <= 239 ->
                     /\ n >= 3
                     /\ is_cont(bs[2]) /\ is_cont(bs[3])
                     /\ (b = 224 => bs[2] >= 160)
                     /\ (b = 237 => bs[2] <= 159)
                     /\ is_utf8(rest(3))
               [] b >= 240 /\ b <= 244 ->
                     /\ n >= 4
                     /\ is_cont(bs[2]) /\ is_cont(bs[3]) /\ is_cont(bs[4])
                     /\ (b = 240 => bs[2] >= 144)
                     /\ (b = 244 => bs[2] <= 143)
                     /\ is_utf8(rest(4))
               [] OTHER -> FALSE

is_digit(b) == b >= 48 /\ b <= 57

\* the decimal digits of a run of ASCII digits
digits_of(bs) == [i \in DOMAIN bs |-> bs[i] - 48]

\* str::parse::<i64>: an optional sign, then one digit or more (the
\* plaintexts are too short to overflow)
parse_i64(bs) ==
    LET signed == bs # << >> /\ bs[1] \in {43, 45}
        body == IF signed THEN Tail(bs) ELSE bs
    IN  IF body # << >> /\ \A i \in DOMAIN body : is_digit(body[i])
        THEN [ok |-> TRUE,
              value |-> IF signed /\ bs[1] = 45
                        THEN 0 - DigitsValue(digits_of(body), 10)
                        ELSE DigitsValue(digits_of(body), 10)]
        ELSE [ok |-> FALSE, value |-> 0]

RECURSIVE strip_zeros(_)
\* a fraction without its trailing zeros
strip_zeros(ds) ==
    IF ds # << >> /\ ds[Len(ds)] = 0 THEN strip_zeros(SubSeq(ds, 1, Len(ds) - 1))
    ELSE ds

\* str::parse::<f64> on the plaintexts of the model (signs, digits and one
\* point; no exponent, no "inf", no "nan"): the number as sign, whole part
\* and fraction digits
parse_f64(bs) ==
    LET signed == bs # << >> /\ bs[1] \in {43, 45}
        body == IF signed THEN Tail(bs) ELSE bs
        points == {i \in DOMAIN body : body[i] = 46}
        dot == IF points = {} THEN Len(body) + 1 ELSE Min(points)
        whole == SubSeq(body, 1, dot - 1)
        frac == SubSeq(body, dot + 1, Len(body))
    IN  IF /\ Cardinality(points) <= 1
           /\ Len(whole) + Len(frac) >= 1
           /\ \A i \in DOMAIN whole : is_digit(whole[i])
           /\ \A i \in DOMAIN frac : is_digit(frac[i])
        THEN [ok |-> TRUE,
              value |-> [neg |-> signed /\ bs[1] = 45,
                         whole |-> DigitsValue(digits_of(whole), 10),
                         frac |-> strip_zeros(digits_of(frac))]]
        ELSE [ok |-> FALSE, value |-> [neg |-> FALSE, whole |-> 0, frac |-> << >>]]

\* str::parse::<bool>: "true" or "false", nothing else
parse_bool(bs) ==
    CASE bs = << 116, 114, 117, 101 >> -> [ok |-> TRUE, value |-> TRUE]
      [] bs = << 102, 97, 108, 115, 101 >> -> [ok |-> TRUE, value |-> FALSE]
      [] OTHER -> [ok |-> FALSE, value |-> FALSE]

\* Result<DecryptedValue>: Ok(variant(payload)) or Err(error)
Ok(variant, payload) == [ok |-> TRUE, variant |-> variant, payload |-> << payload >>]
Err(error) == [ok |-> FALSE, variant |-> error, payload |-> << >>]

\* lines 79-94: the plaintext bytes of a verified envelope to the typed
\* value; String::from_utf8(raw_decrypted)? comes first, for every type
decode(raw, data_type) ==
    IF ~is_utf8(raw) THEN Err("FromUtf8Error")
    ELSE CASE data_type = "String" -> Ok("String", raw)
           [] data_type = "Int" ->
                 IF parse_i64(raw).ok THEN Ok("Int", parse_i64(raw).value)
                 ELSE Err("ParseIntError")
           [] data_type = "Float" ->
                 IF parse_f64(raw).ok THEN Ok("Float", parse_f64(raw).value)
                 ELSE Err("ParseFloatError")
           [] data_type = "Bytes" -> Ok("Bytes", raw)
           [] data_type = "Bool" ->
                 IF parse_bool(raw).ok THEN Ok("Bool", parse_bool(raw).value)
                 ELSE Err("ParseBoolError")
           [] data_type = "Comment" -> Ok("Comment", << >>)
           [] OTHER -> Err("Unknown data type")

\* an encrypted leaf: whether the envelope matches the grammar, the key its
\* tag verifies under, the plaintext bytes, the type tag
Leaf(format_ok, key, raw, tag) ==
    [format_ok |-> format_ok, key |-> key, raw |-> raw, tag |-> tag]

\* enc::age::decrypt(data, key, path)
age_decrypt(data, key) ==
    IF ~data.format_ok THEN Err("InvalidDataFormat")
    ELSE IF data.key # key THEN Err("aead::Error")
    ELSE decode(data.raw, data_type_of(data.tag))

\* the data key of the documents, and another 32-byte key
DataKey == "data key"
OtherKey == "other key"

\* the leaves handed to the decryption: every plaintext under every type
\* tag, and an envelope that does not match the grammar
Leaves ==
    {Leaf(TRUE, DataKey, raw, tag) : raw \in Plaintexts, tag \in TypeTags}
    \cup {Leaf(FALSE, DataKey, << >>, "str")}

\* enc::age::decrypt called on a leaf
AgeDecrypt ==
    /\ called = NoCall
    /\ \E data \in Leaves, key \in {DataKey, OtherKey} :
          called' = [fn |-> "age::decrypt", data |-> data, key |-> key,
                     ret |-> age_decrypt(data, key)]
    /\ UNCHANGED << pc, manifest, locals, result, nextUlid, generations, secretsLink,
                    metadataFile, fs, partials, prev_run >>

(***************************************************************************)
(* The decryption of a leaf of a document (src/src/sops.rs).               *)
(***************************************************************************)
\* a document has at most MaxStanzas recipient stanzas
MaxStanzas == 2

Recipients == {"age1r1", "age1r2"}

\* a key that is not 32 bytes long
ShortKey == "short key"

\* the enc of a stanza: whether the armor parses, the recipient the key is
\* wrapped for, the key it wraps
Enc(armor_ok, to, kek) == [armor_ok |-> armor_ok, to |-> to, kek |-> kek]

\* struct Age { recipient, enc }
Age(recipient, enc) == [recipient |-> recipient, enc |-> enc]

Stanzas ==
    {Age(r, e) : r \in Recipients,
                 e \in {Enc(TRUE, to, kek) : to \in Recipients, kek \in {DataKey, ShortKey}}
                       \cup {Enc(FALSE, "age1r1", DataKey)}}

\* a document: its leaves by dotted path, and sops.age
Document(leaves, age) == [leaves |-> leaves, age |-> age]

\* the identity file: whether it can be read, and the recipients of its
\* identities
Keyfile(readable, identities) == [readable |-> readable, identities |-> identities]

Keyfiles ==
    {Keyfile(TRUE, ids) : ids \in SUBSET Recipients} \cup {Keyfile(FALSE, {})}

\* enc::age::decrypt_kek(&candidate.enc, keyfile)
decrypt_kek(enc, keyfile) ==
    IF enc.armor_ok /\ keyfile.readable /\ enc.to \in keyfile.identities
    THEN [ok |-> TRUE, kek |-> enc.kek]
    ELSE [ok |-> FALSE, kek |-> ShortKey]

RECURSIVE candidiates(_, _, _)
\* sops.age.iter().filter(|a| identities.contains(&a.recipient)).collect():
\* the indices of the matching stanzas from index i on, in the order of sops.age
candidiates(age, identities, i) ==
    IF i > Len(age) THEN << >>
    ELSE (IF age[i].recipient \in identities THEN << i >> ELSE << >>)
         \o candidiates(age, identities, i + 1)

\* the last matching stanza taken
candidate_Last(cs) == cs[Len(cs)]

\* let candidate = candidiates[0]
candidate(cs) == cs[1]

\* what a call returns, with what it did on the way: whether it read the
\* identity file, and the stanzas it handed to decrypt_kek
Outcome(ret, keyfile_read, unwrapped) ==
    [ret |-> ret, keyfile_read |-> keyfile_read, unwrapped |-> unwrapped]

\* fn decrypt(path, data, keyfile, sops), lines 136-165
sops_decrypt(data, keyfile, age) ==
    IF ~keyfile.readable THEN Outcome(Err("NoKey"), TRUE, << >>)
    ELSE LET cs == candidiates(age, keyfile.identities, 1)
         IN  IF Len(cs) = 0 THEN Outcome(Err("NoRecipients"), TRUE, << >>)
             ELSE LET c == candidate(cs)
                      kek == decrypt_kek(age[c].enc, keyfile)
                  IN  IF ~kek.ok
                      THEN Outcome(Err("KekDecryptionError"), TRUE, << c >>)
                      ELSE IF kek.kek = ShortKey
                      THEN Outcome(Err("TryFromSliceError"), TRUE, << c >>)
                      ELSE Outcome(age_decrypt(data, kek.kek), TRUE, << c >>)

\* SopsFile::get_key(key): the leaf at the path, None when there is none
leaf(document, path) ==
    IF path \in DOMAIN document.leaves THEN Some(document.leaves[path]) ELSE None

\* SopsFile::decrypt(key, keyfile), lines 49-55
SopsFile_decrypt(document, path, keyfile) ==
    LET data == leaf(document, path)
    IN  IF data = None THEN Outcome(Err("MissingData"), FALSE, << >>)
        ELSE sops_decrypt(data[1], keyfile, document.age)

\* the leaves of the documents: a string, and bytes that are no UTF-8
DocLeaves ==
    { EmptyFn,
      "token" :> Leaf(TRUE, DataKey, << 49 >>, "str"),
      "token" :> Leaf(TRUE, DataKey, << 255 >>, "bytes") }

\* SopsFile::decrypt called on a document
SopsDecrypt ==
    /\ called = NoCall
    /\ \E n \in 0..MaxStanzas :
         \E age \in [1..n -> Stanzas], leaves \in DocLeaves, keyfile \in Keyfiles :
            called' = [fn |-> "SopsFile::decrypt",
                       document |-> Document(leaves, age), path |-> "token",
                       keyfile |-> keyfile,
                       out |-> SopsFile_decrypt(Document(leaves, age), "token", keyfile)]
    /\ UNCHANGED << pc, manifest, locals, result, nextUlid, generations, secretsLink,
                    metadataFile, fs, partials, prev_run >>

(***************************************************************************)
(* The renderer on its own (src/src/fs.rs, lines 94-117 and 178-183).      *)
(***************************************************************************)
\* the names of the secrets of a manifest
RenderNames == {"a", "b"}

\* what a secret decrypted to: the variant, and its stringified plaintext as
\* text (a string may hold anything, the text of a placeholder too)
RenderValues ==
    { [type |-> "String", text |-> << Lit("x") >>],
      [type |-> "String", text |-> << Ph("b") >>],
      [type |-> "Int", text |-> << Lit("7") >>],
      [type |-> "Float", text |-> << Lit("1.5") >>],
      [type |-> "Bool", text |-> << Lit("true") >>],
      [type |-> "Bytes", text |-> << Lit("raw") >>],
      [type |-> "Comment", text |-> << >>] }

\* the template sources
RenderTexts ==
    { << Lit("k="), Ph("a"), Lit(";"), Ph("b"), Lit(";"), Ph("a") >>,
      << Ph("b"), Ph("c") >> }

\* the secrets table after the loop over files: the materialized secrets that
\* are inserted, by name
secrets_table(materialized) ==
    [n \in {m \in DOMAIN materialized : inserts_secret(materialized[m])} |->
        materialized[n].text]

\* the loop body of lines 178-183 called on a template text
RenderCall ==
    /\ called = NoCall
    /\ \E names \in SUBSET RenderNames :
         \E materialized \in [names -> RenderValues], text \in RenderTexts :
            \E order \in iter_orders(DOMAIN secrets_table(materialized)) :
               called' = [fn |-> "render", text |-> text,
                          materialized |-> materialized, order |-> order,
                          ret |-> render(text, secrets_table(materialized), order)]
    /\ UNCHANGED << pc, manifest, locals, result, nextUlid, generations, secretsLink,
                    metadataFile, fs, partials, prev_run >>

NextCalls ==
    \/ AgeDecrypt
    \/ SopsDecrypt
    \/ RenderCall

\* the functions of the decryption chain and the renderer, each called once
\* on its own, on every input of the bounded sets
SpecCalls == Init /\ [][NextCalls]_vars

(***************************************************************************)
(* The properties.                                                         *)
(***************************************************************************)
SecretsOf(m) == {Manifests[m].secrets[i] : i \in DOMAIN Manifests[m].secrets}
TemplatesOf(m) == {Manifests[m].templates[i] : i \in DOMAIN Manifests[m].templates}

MinOf(a, b) == IF a <= b THEN a ELSE b
MaxOf(a, b) == IF a >= b THEN a ELSE b

\* a configured mode read as three octal digits: 640 is 6*64 + 4*8 + 0
OctalDigits(m) == (m \div 100) * 64 + ((m \div 10) % 10) * 8 + (m % 10)

\* generation g holds every file and every rendered template of its manifest,
\* each with its content and its final permissions
Complete(g) ==
    LET dir == generations[g]
    IN /\ dir.exists
       /\ dir.rendered_dir
       /\ \A s \in SecretsOf(dir.manifest) :
             get_key(s) # None =>
                /\ s.name \in DOMAIN dir.files
                /\ dir.files[s.name].content =
                      written_bytes(SopsFiles[s.source][get_key(s)[1]])
                /\ dir.files[s.name].mode = OctalDigits(unwrap_or(s.mode, DefaultMode))
       /\ \A t \in TemplatesOf(dir.manifest) :
             /\ t.name \in DOMAIN dir.rendered
             /\ dir.rendered[t.name].mode = RenderedMode

\* C1: whatever <basedir>/secrets targets is a complete generation (all its
\* files and rendered templates were written before the rename), and a
\* generation is not modified while the pointer targets it: a reader sees the
\* previous generation or the new one in full.
C1_AtomicGeneration ==
    /\ [](secretsLink # None => Complete(secretsLink[1]))
    /\ [][\A g \in DOMAIN generations :
            (secretsLink = Some(g) /\ secretsLink' = Some(g))
                => generations'[g] = generations[g]]_vars

\* C1 witness: the new generation is half written while the pointer still
\* targets the previous one
C1_Witness ==
    /\ pc = "render"
    /\ secretsLink # None
    /\ secretsLink # Some(generation_id)
    /\ DOMAIN generations[generation_id].files # {}

\* C2: once an install has returned Ok(id), id is the active generation:
\* <basedir>/secrets targets generations/<id>, which exists, and
\* metadata.json names it, whatever clean_old_generations calls follow.
C2_InstalledIsActive ==
    (pc = "idle" /\ result.status = "ok") =>
        /\ secretsLink = Some(result.gen)
        /\ metadataFile.active_generation = Some(result.gen)
        /\ generations[result.gen].exists

\* C2 witness: the second install succeeded and a clean removed the first
C2_Witness ==
    /\ pc = "idle"
    /\ result.status = "ok"
    /\ result.gen >= 2
    /\ \E g \in 1..(result.gen - 1) : g \notin partials /\ ~generations[g].exists

\* C3: after clean_old_generations(k) on metadata whose active generation is
\* recorded, metadata.json lists min(prior_count, max(k, 1)) generations, the
\* active one among them.
C3_CleanCount ==
    [][\A k \in 0..MaxKeep :
         (/\ Clean(k)
          /\ \E t \in DOMAIN metadataFile.generations :
                is_active(metadataFile.active_generation, metadataFile.generations[t]))
         => /\ Cardinality(DOMAIN metadataFile'.generations) =
                  MinOf(Cardinality(DOMAIN metadataFile.generations), MaxOf(k, 1))
            /\ \E t \in DOMAIN metadataFile'.generations :
                  is_active(metadataFile'.active_generation, metadataFile'.generations[t])
      ]_vars

\* C4: clean_old_generations leaves the directory of the active generation
\* (the one metadata.json names, and the one <basedir>/secrets targets) as it
\* is, for every to_keep.
C4_ActiveNeverDeleted ==
    [][\A k \in 0..MaxKeep : Clean(k) =>
          \A g \in DOMAIN generations :
             (metadataFile.active_generation = Some(g) \/ secretsLink = Some(g))
                => generations'[g] = generations[g]]_vars

\* C4 witness: the active generation has the oldest timestamp, a newer one
\* has been removed, the active directory is still there
C4_Witness ==
    \E t1, t2 \in DOMAIN metadataFile.generations :
        /\ t1 < t2
        /\ metadataFile.active_generation = Some(metadataFile.generations[t1])
        /\ generations[metadataFile.generations[t1]].exists
        /\ ~generations[metadataFile.generations[t2]].exists

\* C5: from the start of the call to the end of steps (c) and (d), no step
\* changes <basedir>/secrets, metadata.json, a destination or another
\* generation; a failure there returns an error and leaves the partial
\* generation directory.
C5_FailureBeforeFlip ==
    [][(pc \in {"write", "render"} \/ pc' \in {"write", "render"}) =>
          /\ secretsLink' = secretsLink
          /\ metadataFile' = metadataFile
          /\ fs' = fs
          /\ \A g \in DOMAIN generations :
                generations[g].exists /\ g # generation_id
                   => generations'[g] = generations[g]
          /\ (pc' = "idle" =>
                /\ result'.status = "err"
                /\ result'.step \in {"write", "render"}
                /\ generations'[generation_id].exists)
      ]_vars

\* C5 witness: an install failed in (c) or (d) with a generation active
C5_Witness ==
    /\ pc = "idle"
    /\ result.status = "err"
    /\ result.step \in {"write", "render"}
    /\ secretsLink # None
    /\ generations[result.gen].exists

\* C6: after a successful install followed by clean_old_generations, no
\* directory left by an earlier install that failed before the flip exists.
C6_PartialCollected ==
    (prev_run.valid /\ prev_run.cleaned) =>
        \A g \in partials : g < prev_run.gen => ~generations[g].exists

\* C7: after a successful install, the destination of every template with
\* copy = true is a regular file whose bytes are that template's rendered
\* output, rendered/<template.name>.
C7_CopyIsRendered ==
    prev_run.valid =>
        \A t \in TemplatesOf(prev_run.manifest) :
            t.copy =>
                /\ fs[t.destination].kind = "file"
                /\ fs[t.destination].content =
                      generations[prev_run.gen].rendered[t.name].content

\* C8: a file the operator put at a path is left as it is by every step of
\* the manager.
C8_OperatorFilesKept ==
    [][\A p \in Paths : fs[p] = OperatorFile => fs'[p] = OperatorFile]_vars

\* C9: after a successful install every secret file of the active generation
\* has the configured mode read as octal digits, 0o400 when none is
\* configured.
C9_ModeIsOctal ==
    (pc = "idle" /\ result.status = "ok") =>
        LET dir == generations[secretsLink[1]]
        IN \A s \in SecretsOf(dir.manifest) :
              s.name \in DOMAIN dir.files =>
                 dir.files[s.name].mode = OctalDigits(unwrap_or(s.mode, DefaultMode))

\* C9 witness: a file configured 640 and a file with no mode in active
\* generations of successful installs
C9_Witness ==
    /\ pc = "idle"
    /\ result.status = "ok"
    /\ \E s \in SecretsOf(manifest) :
          /\ s.mode = Some(640)
          /\ s.name \in DOMAIN generations[secretsLink[1]].files

DecimalBytes(n) ==
    LET ds == Digits(IF n < 0 THEN 0 - n ELSE n)
    IN  (IF n < 0 THEN << 45 >> ELSE << >>) \o [i \in DOMAIN ds |-> ds[i] + 48]

\* the bytes of "true" and of "false"
BoolBytes(b) == IF b THEN << 116, 114, 117, 101 >> ELSE << 102, 97, 108, 115, 101 >>

\* C11: enc::age::decrypt of a leaf under the key of its document returns the
\* original plaintext for each typed variant: the string, the integer, the
\* float or the boolean the bytes spell, and for "bytes" the raw bytes,
\* whatever they are, valid UTF-8 or not.
C11_DecryptRoundTrip ==
    (called.fn = "age::decrypt" /\ called.data.format_ok /\ called.key = called.data.key) =>
        LET raw == called.data.raw
            tag == called.data.tag
            returns(variant, payload) ==
                /\ called.ret.ok
                /\ called.ret.variant = variant
                /\ called.ret.payload = << payload >>
        IN  /\ (tag = "bytes") => returns("Bytes", raw)
            /\ (tag = "str" /\ is_utf8(raw)) => returns("String", raw)
            /\ \A n \in (0 - 11)..11 :
                  (tag = "int" /\ raw = DecimalBytes(n)) => returns("Int", n)
            /\ \A b \in BOOLEAN :
                  (tag = "bool" /\ raw = BoolBytes(b)) => returns("Bool", b)
            /\ (tag = "float" /\ raw = << 49, 46, 53 >>) =>
                  returns("Float", [neg |-> FALSE, whole |-> 1, frac |-> << 5 >>])

\* C12: a call that has reached the pruning of step (h) returns Ok whatever
\* fails in (h) or in (i): the failure is only warned about, and the pointer
\* and the published links stay as they are.
C12_LateFailureWarns ==
    [][(pc \in {"prune", "persist"} /\ pc' = "idle") =>
          /\ result'.status = "ok"
          /\ secretsLink' = secretsLink
          /\ fs' = fs]_vars

\* C13: clean_old_generations(to_keep) with to_keep above the number of
\* recorded generations removes no generation directory and leaves
\* metadata.json as it is.
C13_KeepMoreThanRecorded ==
    [][\A k \in 0..MaxKeep :
         (Clean(k) /\ k > Cardinality(DOMAIN metadataFile.generations))
            => /\ generations' = generations
               /\ metadataFile' = metadataFile]_vars

\* C14: the pruning of an install with a previous active generation leaves
\* no path that the previous generation lists and the new one does not, and
\* leaves every path the new generation lists as it was published.
C14_StaleRemoved ==
    [][(pc = "prune" /\ pc' = "persist" /\ previous_generation # None) =>
          LET previous == generations[previous_generation[1]].secret_files
              current == secret_files(Manifests[manifest])
          IN  /\ \A p \in previous \ current : fs'[p] = Absent
              /\ \A p \in current : fs'[p] = fs[p] /\ fs[p].kind # "absent"
      ]_vars

\* C14 witness: the install has pruned a destination that the previous
\* generation listed and its own manifest omits, and kept its own
C14_Witness ==
    /\ pc = "persist"
    /\ previous_generation # None
    /\ \E p \in generations[previous_generation[1]].secret_files :
          /\ p \notin secret_files(Manifests[manifest])
          /\ fs[p] = Absent
    /\ \E p \in secret_files(Manifests[manifest]) :
          /\ p \in generations[previous_generation[1]].secret_files
          /\ fs[p].kind # "absent"

\* C15: every rendered template of the generation <basedir>/secrets targets
\* has the template's configured mode read as octal digits, 0o400 when none
\* is configured.
C15_TemplateMode ==
    secretsLink # None =>
        LET dir == generations[secretsLink[1]]
        IN  \A t \in TemplatesOf(dir.manifest) :
               t.name \in DOMAIN dir.rendered =>
                  dir.rendered[t.name].mode = OctalDigits(unwrap_or(t.mode, DefaultMode))

\* the stanzas of the document of the call whose recipient is in the
\* identity file
Matching ==
    {i \in DOMAIN called.document.age :
        called.document.age[i].recipient \in called.keyfile.identities}

\* C16: SopsFile::decrypt fails with MissingData, the identity file unread,
\* when the leaf is absent; with the leaf there and the identity file read,
\* it fails with NoRecipients when no stanza names a recipient of the file,
\* and otherwise hands to decrypt_kek the first such stanza in the order of
\* sops.age and no other: when that stanza does not unwrap, the call fails.
C16_DecryptOrder ==
    (called.fn = "SopsFile::decrypt") =>
        LET out == called.out
            fails(error) == ~out.ret.ok /\ out.ret.variant = error
        IN  /\ (called.path \notin DOMAIN called.document.leaves) =>
                  fails("MissingData") /\ ~out.keyfile_read /\ out.unwrapped = << >>
            /\ (called.path \in DOMAIN called.document.leaves /\ called.keyfile.readable) =>
                  /\ out.keyfile_read
                  /\ (Matching = {}) => fails("NoRecipients") /\ out.unwrapped = << >>
                  /\ (Matching # {}) =>
                        LET first == called.document.age[Min(Matching)].enc
                        IN  /\ out.unwrapped = << Min(Matching) >>
                            /\ (~first.armor_ok \/ first.to \notin called.keyfile.identities)
                                  => fails("KekDecryptionError")

\* C16 witness: the first matching stanza does not unwrap, a later matching
\* one would, and the call has failed on the first
C16_Witness ==
    /\ called.fn = "SopsFile::decrypt"
    /\ called.path \in DOMAIN called.document.leaves
    /\ called.keyfile.readable
    /\ \E i, j \in Matching :
          /\ i = Min(Matching)
          /\ i < j
          /\ ~decrypt_kek(called.document.age[i].enc, called.keyfile).ok
          /\ decrypt_kek(called.document.age[j].enc, called.keyfile).ok
          /\ decrypt_kek(called.document.age[j].enc, called.keyfile).kek = DataKey
    /\ ~called.out.ret.ok
    /\ called.out.unwrapped # << >>

RECURSIVE Concat(_)
\* the texts of a sequence, one after the other
Concat(texts) == IF texts = << >> THEN << >> ELSE Head(texts) \o Concat(Tail(texts))

\* C17: the rendered text is the template text with every placeholder of a
\* secret that decrypted to a string, an int, a float or a bool replaced by
\* the stringified plaintext of that secret, and every other placeholder (a
\* bytes or comment secret, a name that is no materialized secret) left as
\* it is.
C17_RenderSubstitutes ==
    (called.fn = "render") =>
        LET values == called.materialized
            substituted(token) ==
                IF /\ token.kind = "ph"
                   /\ token.v \in DOMAIN values
                   /\ values[token.v].type \in {"String", "Int", "Float", "Bool"}
                THEN values[token.v].text
                ELSE << token >>
        IN  called.ret = Concat([i \in DOMAIN called.text |-> substituted(called.text[i])])

\* C18: a successful install leaves in metadata.json every generation that
\* was listed there before it, and lists its own.
C18_GenerationsKept ==
    [][(pc = "persist" /\ pc' = "idle" /\ result'.status = "ok") =>
          /\ Range(metadataFile.generations) \subseteq Range(metadataFile'.generations)
          /\ generation_id \in Range(metadataFile'.generations)]_vars

\* C19: with no install in progress, <basedir>/secrets, when it exists,
\* targets the generation metadata.json names as the active one.
C19_PointerIsActive ==
    (pc = "idle" /\ secretsLink # None) =>
        metadataFile.active_generation = secretsLink

\* C20: after a successful install, the published link of every secret of
\* the manifest is a symlink to a file of the active generation, also when
\* the secret has a link and no effective key.
C20_LinksResolve ==
    (pc = "idle" /\ prev_run.valid) =>
        \A s \in SecretsOf(prev_run.manifest) :
            s.link # None =>
                /\ fs[s.link[1]] = Symlink(<< "secrets", s.name >>)
                /\ secretsLink = Some(prev_run.gen)
                /\ s.name \in DOMAIN generations[prev_run.gen].files

=============================================================================
